---------------------------- MODULE Spec2Model ----------------------------
(***************************************************************************)
(* s3pi: package index manager for S3 hosted package indexes.              *)
(*                                                                         *)
(* Strings are sequences of characters.  The characters of the model are   *)
(* the letters of the package file names, "-", "/" and a few tokens that   *)
(* stand for a fixed run of characters never split by the program          *)
(* ("index.html", "simple", "*", the name of the temporary directory).     *)
(* The local file system and the bucket are functions from such strings.   *)
(***************************************************************************)
EXTENDS Integers, Sequences, FiniteSets, Bags, TLC

(***************************************************************************)
(* Bounds of the model.                                                    *)
(***************************************************************************)
MaxRuns == 2
NumFiles == 4
MaxStrLen == 4          \* longest string given to ensure_ends_with_slash
NumDirs == 2            \* entries of the directory given to create_index
MaxSections == 2        \* sections of the config file given to load_settings

(***************************************************************************)
(* Names of the entries a package directory may hold.  "d-0" names a       *)
(* sub-directory of the package directory, the others regular files.       *)
(***************************************************************************)
AllNames ==
    << <<"a", "-", "1">>, <<"A", "-", "2">>, <<"b", "-", "1">>, <<"d", "-", "0">>,
       <<"c">>, <<"B", "-", "2">> >>

SubDirectoryNames == { <<"d", "-", "0">> }

Min(a, b) == IF a < b THEN a ELSE b

Names == {AllNames[i] : i \in 1..Min(NumFiles, Len(AllNames))}

(***************************************************************************)
(* String helpers, as the Python expressions compute them.                 *)
(***************************************************************************)
Slash == "/"
Star == <<"*">>
IndexHtml == <<"index.html">>
None == <<"None">>

Lower(ch) ==
    CASE ch = "A" -> "a"
      [] ch = "B" -> "b"
      [] OTHER -> ch

StrLower(s) == [i \in 1..Len(s) |-> Lower(s[i])]

\* s.split(sep)[0]
SplitFirst(s, sep) ==
    LET idx == {i \in 1..Len(s) : s[i] = sep}
    IN  IF idx = {} THEN s
        ELSE SubSeq(s, 1, (CHOOSE i \in idx : \A j \in idx : i <= j) - 1)

\* filename.split('-')[0].lower()
PackageKey(filename) == StrLower(SplitFirst(filename, "-"))

EndsWithSlash(s) == Len(s) > 0 /\ s[Len(s)] = Slash

\* lines 82-84 with the test left out: the slash is always added
ensure_ends_with_slash_Always(string) == string \o <<Slash>>

\* lines 78-84
ensure_ends_with_slash(string) ==
    IF EndsWithSlash(string) THEN string ELSE string \o <<Slash>>

\* '/'.join((a, b))
SlashJoin(a, b) == a \o <<Slash>> \o b

\* '{}/index.html'.format(x)
FormatIndex(x) == x \o <<Slash>> \o IndexHtml

\* s[n:]
SliceFrom(s, n) == SubSeq(s, n + 1, Len(s))

IsAbs(p) == Len(p) > 0 /\ p[1] = Slash

\* os.path.join(a, b): an absolute b discards a
OsPathJoin(a, b) ==
    IF IsAbs(b) THEN b
    ELSE IF a = <<>> \/ EndsWithSlash(a) THEN a \o b
    ELSE a \o <<Slash>> \o b

LastSlash(p) ==
    LET idx == {i \in 1..Len(p) : p[i] = Slash}
    IN  IF idx = {} THEN 0 ELSE CHOOSE i \in idx : \A j \in idx : j <= i

\* os.path.dirname(p)
Dirname(p) ==
    LET i == LastSlash(p)
    IN  IF i = 0 THEN <<>>
        ELSE IF i = 1 THEN <<Slash>>
        ELSE SubSeq(p, 1, i - 1)

\* os.path.basename(p)
Basename(p) == SliceFrom(p, LastSlash(p))

\* the path a directory operation acts on: a trailing slash is dropped
NormPath(p) ==
    IF Len(p) > 1 /\ EndsWithSlash(p) THEN SubSeq(p, 1, Len(p) - 1) ELSE p

(***************************************************************************)
(* Settings (load_settings defaults) and the temporary directory.          *)
(***************************************************************************)
DefaultPrefix == <<"simple">>
S3Prefix == ensure_ends_with_slash(DefaultPrefix)
TempDir == <<Slash, "T">>
FsRoot == <<Slash>>

(***************************************************************************)
(* File contents: sequences of lines.                                      *)
(***************************************************************************)
TextLine(ind, s) == [t |-> s, ind |-> ind, href |-> <<>>, text |-> <<>>]
AnchorLine(ind, href, text) == [t |-> "a", ind |-> ind, href |-> href, text |-> text]
PackageData(filename) == << [t |-> "data", ind |-> 0, href |-> <<>>, text |-> filename] >>

RootHeader ==
    << TextLine(0, "<!DOCTYPE html>"), TextLine(0, "<html>"), TextLine(2, "<head>"),
       TextLine(4, "<title>Simple Index</title>"),
       TextLine(4, "<meta name=\"api-version\" value=\"2\" />"),
       TextLine(2, "</head>"), TextLine(2, "<body>") >>

RootFooter == << TextLine(2, "</body>"), TextLine(0, "</html>") >>

RootLink(sub_directory) ==
    << AnchorLine(4, sub_directory \o <<Slash>>, sub_directory), TextLine(4, "<br />") >>

PackageLink(filename) ==
    << AnchorLine(0, filename, filename), TextLine(0, "<br />") >>

RECURSIVE RootLinks(_)
RootLinks(order) ==
    IF order = <<>> THEN <<>>
    ELSE RootLink(Head(order)) \o RootLinks(Tail(order))

\* the href of every a element of a page (IndexParser.handle_starttag)
Hrefs(content) ==
    LET idx == {i \in 1..Len(content) : content[i].t = "a"}
    IN  {content[i].href : i \in idx}

(***************************************************************************)
(* The local file system: a function from paths to entries.                *)
(***************************************************************************)
DirEntry == [kind |-> "dir", content |-> <<>>]
FileEntry(content) == [kind |-> "file", content |-> content]

Exists(f, p) == p = FsRoot \/ p \in DOMAIN f
IsDir(f, p) == p = FsRoot \/ (p \in DOMAIN f /\ f[p].kind = "dir")
IsFile(f, p) == p \in DOMAIN f /\ f[p].kind = "file"

IsUnder(p, d) ==
    /\ Len(p) > Len(d) + 1
    /\ SubSeq(p, 1, Len(d)) = d
    /\ p[Len(d) + 1] = Slash

Put(f, p, e) == [q \in (DOMAIN f) \cup {p} |-> IF q = p THEN e ELSE f[q]]

\* the directories os.makedirs creates for p: p and its missing ancestors
RECURSIVE Ancestors(_)
Ancestors(p) ==
    IF p = FsRoot \/ p = <<>> THEN {}
    ELSE {p} \cup Ancestors(Dirname(p))

MakeDirs(f, p) ==
    LET new == {q \in Ancestors(NormPath(p)) : ~Exists(f, q)}
    IN  [q \in (DOMAIN f) \cup new |-> IF q \in new THEN DirEntry ELSE f[q]]

\* os.listdir(d)
ListDir(f, d) ==
    {SliceFrom(p, Len(d) + 1) : p \in {q \in DOMAIN f : IsUnder(q, d) /\ Dirname(q) = d}}

\* shutil.rmtree(d)
RmTree(f, d) == [q \in {r \in DOMAIN f : r # d /\ ~IsUnder(r, d)} |-> f[q]]

Orders(S) == {o \in [1..Cardinality(S) -> S] : \A i, j \in 1..Cardinality(S) : o[i] = o[j] => i = j}

(***************************************************************************)
(* State.                                                                  *)
(*   fs, bucket        the local file system and the bucket's objects      *)
(*   pc                where main is; "exited" between two runs            *)
(*   incoming, upload  the run's package directory and upload option       *)
(*   authOk            whether connect_to_region finds credentials         *)
(*   rootWritable      whether the process may write outside TempDir       *)
(*   new_index_files, download_files, modified_files   the code's sets     *)
(*   planTodo, dlTodo, mutTodo, upTodo   what each loop has left           *)
(*   checks, fetched, written   the run's get_key calls, the keys whose    *)
(*                     contents were fetched, the keys written             *)
(*   outcome           how the last run ended                              *)
(*   bucketAtStart, uploadCut, runs   history of the runs                  *)
(*   call              the last direct call of a function, its arguments   *)
(*                     and its result (used where a function is called     *)
(*                     on its own)                                         *)
(***************************************************************************)
VARIABLES fs, bucket, pc, incoming, upload, authOk, rootWritable,
          new_index_files, download_files, modified_files,
          planTodo, dlTodo, mutTodo, upTodo,
          checks, fetched, written, outcome, bucketAtStart, uploadCut, runs,
          call

vars == << fs, bucket, pc, incoming, upload, authOk, rootWritable,
           new_index_files, download_files, modified_files,
           planTodo, dlTodo, mutTodo, upTodo,
           checks, fetched, written, outcome, bucketAtStart, uploadCut, runs,
           call >>

EmptyFn == [x \in {} |-> x]

\* a set of names, or None (what download_from_s3 returns when it cannot connect)
NifSet(S) == [isNone |-> FALSE, items |-> S]
NifNone == [isNone |-> TRUE, items |-> {}]

\* no function has been called on its own
NoCall == [op |-> "none"]

RootKey == SlashJoin(S3Prefix, IndexHtml)
PageKey(key) == SlashJoin(S3Prefix, SlashJoin(key, IndexHtml))
FileKey(key, postfix) == SlashJoin(S3Prefix, SlashJoin(key, postfix))

\* s3_bucket.get_key(name)
GetKey(name) == name \in DOMAIN bucket

Init ==
    /\ fs = EmptyFn
    /\ bucket = EmptyFn
    /\ pc = "exited"
    /\ incoming = {}
    /\ upload = FALSE
    /\ authOk = TRUE
    /\ rootWritable \in BOOLEAN
    /\ new_index_files = NifSet({})
    /\ download_files = {}
    /\ modified_files = {}
    /\ planTodo = {}
    /\ dlTodo = {}
    /\ mutTodo = {}
    /\ upTodo = {}
    /\ checks = EmptyBag
    /\ fetched = {}
    /\ written = {}
    /\ outcome = "none"
    /\ bucketAtStart = EmptyFn
    /\ uploadCut = FALSE
    /\ runs = 0
    /\ call = NoCall

(***************************************************************************)
(* main, up to the call of download_from_s3.                               *)
(***************************************************************************)
\* A bucket that a cut upload left half written is not followed into further runs.
StartRun ==
    /\ pc = "exited"
    /\ runs < MaxRuns
    /\ ~uploadCut
    /\ \E inc \in SUBSET Names, up \in BOOLEAN, auth \in BOOLEAN :
          /\ (~up => auth)       \* credentials matter to a run that connects
          /\ incoming' = inc
          /\ upload' = up
          /\ authOk' = auth
          /\ pc' = IF up THEN "connect" ELSE "mutate"
          /\ mutTodo' = IF up THEN {} ELSE inc
    /\ fs' = MakeDirs(fs, TempDir)
    /\ new_index_files' = NifSet({})
    /\ modified_files' = {}
    /\ outcome' = "running"
    /\ bucketAtStart' = bucket
    /\ runs' = runs + 1
    /\ UNCHANGED << call, bucket, rootWritable, download_files, planTodo, dlTodo,
                    upTodo, checks, fetched, written, uploadCut >>

\* an exception leaves main
Raise(error) ==
    /\ pc' = "raised"
    /\ outcome' = error

(***************************************************************************)
(* download_from_s3                                                        *)
(***************************************************************************)
\* lines 195-205 with the return left out: the planner goes on to the loop
ReturnsUninitialised_Never(found) == FALSE

\* lines 195-205: the index is not initialised, return at once
ReturnsUninitialised(found) == ~found

\* lines 183-205: connect, then look for the root index
PlanConnect ==
    /\ pc = "connect"
    /\ IF ~authOk
       THEN \* NoAuthHandlerFound is logged; the function falls off its end
            /\ new_index_files' = NifNone
            /\ pc' = "mutate"
            /\ mutTodo' = incoming
            /\ UNCHANGED << checks, planTodo >>
       ELSE /\ checks' = checks (+) SetToBag({RootKey})
            /\ new_index_files' = NifSet(IF GetKey(RootKey) THEN {} ELSE {Star})
            /\ IF ReturnsUninitialised(GetKey(RootKey))
               THEN /\ pc' = "mutate"
                    /\ mutTodo' = incoming
                    /\ UNCHANGED planTodo
               ELSE /\ pc' = "plan"
                    /\ planTodo' = incoming
                    /\ UNCHANGED mutTodo
    /\ UNCHANGED << call, fs, bucket, incoming, upload, authOk, rootWritable,
                    download_files, modified_files, dlTodo, upTodo,
                    fetched, written, outcome, bucketAtStart, uploadCut, runs >>

\* the page of the key asked for twice, by the if and again by the elif
EntryChecks_Twice(postfix) ==
    LET key == PackageKey(postfix)
    IN  IF ~GetKey(PageKey(key))
        THEN SetToBag({PageKey(key)})
        ELSE SetToBag({PageKey(key)}) (+) SetToBag({PageKey(key), FileKey(key, postfix)})

\* what one pass of the loop of lines 208-234 asks the bucket
EntryChecks(postfix) ==
    LET key == PackageKey(postfix)
    IN  IF ~GetKey(PageKey(key))
        THEN SetToBag({PageKey(key)})
        ELSE SetToBag({PageKey(key), FileKey(key, postfix)})

\* what one pass adds to new_index_files
EntryNewIndexFiles(postfix) ==
    LET key == PackageKey(postfix)
    IN  IF ~GetKey(PageKey(key))
        THEN {IndexHtml, FormatIndex(key)}
        ELSE IF ~GetKey(FileKey(key, postfix))
        THEN {FormatIndex(key)}
        ELSE {}

\* the elif branch scheduling the root index as well
EntryDownloadFiles_AlsoRoot(postfix) ==
    LET key == PackageKey(postfix)
    IN  IF ~GetKey(PageKey(key))
        THEN {IndexHtml}
        ELSE IF ~GetKey(FileKey(key, postfix))
        THEN {IndexHtml, FormatIndex(key)}
        ELSE {}

\* what one pass adds to download_files
EntryDownloadFiles(postfix) ==
    LET key == PackageKey(postfix)
    IN  IF ~GetKey(PageKey(key))
        THEN {IndexHtml}
        ELSE IF ~GetKey(FileKey(key, postfix))
        THEN {FormatIndex(key)}
        ELSE {}

\* lines 208-234, one entry of the package directory
PlanEntry ==
    /\ pc = "plan"
    /\ \E postfix \in planTodo :
          /\ planTodo' = planTodo \ {postfix}
          /\ checks' = checks (+) EntryChecks(postfix)
          /\ new_index_files' =
                 NifSet(new_index_files.items \cup EntryNewIndexFiles(postfix))
          /\ download_files' = download_files \cup EntryDownloadFiles(postfix)
    /\ UNCHANGED << call, fs, bucket, pc, incoming, upload, authOk, rootWritable,
                    modified_files, dlTodo, mutTodo, upTodo,
                    fetched, written, outcome, bucketAtStart, uploadCut, runs >>

\* lines 236-237 returning although downloads are scheduled
PlanLoopEnd_SkipDownloads ==
    /\ pc = "plan"
    /\ planTodo = {}
    /\ pc' = "mutate"
    /\ mutTodo' = incoming
    /\ UNCHANGED << call, fs, bucket, incoming, upload, authOk, rootWritable,
                    new_index_files, download_files, modified_files,
                    planTodo, dlTodo, upTodo, checks, fetched, written, outcome,
                    bucketAtStart, uploadCut, runs >>

\* lines 236-237: nothing to download, return
PlanLoopEnd ==
    /\ pc = "plan"
    /\ planTodo = {}
    /\ IF download_files = {}
       THEN /\ pc' = "mutate"
            /\ mutTodo' = incoming
            /\ UNCHANGED dlTodo
       ELSE /\ pc' = "download"
            /\ dlTodo' = download_files
            /\ UNCHANGED mutTodo
    /\ UNCHANGED << call, fs, bucket, incoming, upload, authOk, rootWritable,
                    new_index_files, download_files, modified_files,
                    planTodo, upTodo, checks, fetched, written, outcome,
                    bucketAtStart, uploadCut, runs >>

\* lines 246-256: the local file a scheduled download is written to
LocalFile(directory, postfix) ==
    OsPathJoin(directory, SliceFrom(SlashJoin(S3Prefix, postfix), Len(S3Prefix)))

\* whether the process may create p: always inside the temporary directory
MayWrite(p) == IsUnder(p, TempDir) \/ rootWritable

\* lines 245-269, one scheduled download
Download ==
    /\ pc = "download"
    /\ \E postfix \in dlTodo :
          LET name == SlashJoin(S3Prefix, postfix)
              local_file == LocalFile(TempDir, postfix)
          IN  IF ~MayWrite(local_file)
              THEN /\ Raise("PermissionError")
                   /\ UNCHANGED << fs, dlTodo, fetched >>
              ELSE IF ~GetKey(name)
              THEN /\ Raise("S3ResponseError")
                   /\ fs' = MakeDirs(fs, Dirname(local_file))
                   /\ UNCHANGED << dlTodo, fetched >>
              ELSE /\ fs' = Put(MakeDirs(fs, Dirname(local_file)), local_file,
                                FileEntry(bucket[name].content))
                   /\ dlTodo' = dlTodo \ {postfix}
                   /\ fetched' = fetched \cup {name}
                   /\ UNCHANGED << pc, outcome >>
    /\ UNCHANGED << call, bucket, incoming, upload, authOk, rootWritable,
                    new_index_files, download_files, modified_files,
                    planTodo, mutTodo, upTodo, checks, written,
                    bucketAtStart, uploadCut, runs >>

\* lines 115-119 and 27-38: a directory for every link of the root index
recreate_root_folders(f, directory) ==
    LET index == OsPathJoin(directory, IndexHtml)
        hrefs == Hrefs(f[index].content)
        RECURSIVE Make(_, _)
        Make(g, todo) ==
            IF todo = {} THEN g
            ELSE LET h == CHOOSE x \in todo : TRUE
                 IN  Make(MakeDirs(g, OsPathJoin(directory, h)), todo \ {h})
    IN  Make(f, hrefs)

\* lines 271-276
DownloadEnd ==
    /\ pc = "download"
    /\ dlTodo = {}
    /\ IF IndexHtml \in download_files
       THEN IF ~IsFile(fs, OsPathJoin(TempDir, IndexHtml))
            THEN /\ Raise("FileNotFoundError")
                 /\ UNCHANGED << fs, mutTodo >>
            ELSE /\ fs' = recreate_root_folders(fs, TempDir)
                 /\ pc' = "mutate"
                 /\ mutTodo' = incoming
                 /\ UNCHANGED outcome
       ELSE /\ pc' = "mutate"
            /\ mutTodo' = incoming
            /\ UNCHANGED << fs, outcome >>
    /\ UNCHANGED << call, bucket, incoming, upload, authOk, rootWritable,
                    new_index_files, download_files, modified_files,
                    planTodo, dlTodo, upTodo, checks, fetched, written,
                    bucketAtStart, uploadCut, runs >>

(***************************************************************************)
(* create_index, shutil.copy2 and add_new_files_to_index.  Each returns    *)
(* the file system it leaves, its return value and the error it raised.    *)
(***************************************************************************)
Result(f, ret, err) == [fs |-> f, ret |-> ret, err |-> err]

\* the sub-directories the loop of lines 55-57 keeps
SubDirs(f, directory) ==
    {d \in ListDir(f, directory) : IsDir(f, OsPathJoin(directory, d))}

\* lines 41-75 with the root page opened for appending
create_index_Append(f, directory, filename, root, listing) ==
    LET index == OsPathJoin(directory, IndexHtml)
        old == IF IsFile(f, index) THEN f[index].content ELSE <<>>
    IN  IF root
        THEN IF ~IsDir(f, directory) THEN Result(f, None, "FileNotFoundError")
             ELSE IF IsDir(f, index) THEN Result(f, None, "IsADirectoryError")
             ELSE Result(Put(f, index,
                             FileEntry(old \o RootHeader \o RootLinks(listing) \o RootFooter)),
                         index, "none")
        ELSE IF filename # <<>>
        THEN IF ~IsDir(f, directory) THEN Result(f, None, "NotADirectoryError")
             ELSE IF IsDir(f, index) THEN Result(f, None, "IsADirectoryError")
             ELSE Result(Put(f, index, FileEntry(old \o PackageLink(filename))),
                         index, "none")
        ELSE Result(f, None, "none")

\* lines 41-75 with the file opened before the two tests: without a file
\* name an empty page is left behind
create_index_Touch(f, directory, filename, root, listing) ==
    LET index == OsPathJoin(directory, IndexHtml)
        old == IF IsFile(f, index) THEN f[index].content ELSE <<>>
    IN  IF root
        THEN IF ~IsDir(f, directory) THEN Result(f, None, "FileNotFoundError")
             ELSE IF IsDir(f, index) THEN Result(f, None, "IsADirectoryError")
             ELSE Result(Put(f, index,
                             FileEntry(RootHeader \o RootLinks(listing) \o RootFooter)),
                         index, "none")
        ELSE IF ~IsDir(f, directory) THEN Result(f, None, "NotADirectoryError")
        ELSE IF IsDir(f, index) THEN Result(f, None, "IsADirectoryError")
        ELSE IF filename # <<>>
        THEN Result(Put(f, index, FileEntry(old \o PackageLink(filename))),
                    index, "none")
        ELSE Result(Put(f, index, FileEntry(old)), None, "none")

\* lines 41-75; listing is the order in which os.listdir gave the sub-directories
create_index(f, directory, filename, root, listing) ==
    LET index == OsPathJoin(directory, IndexHtml)
        old == IF IsFile(f, index) THEN f[index].content ELSE <<>>
    IN  IF root
        THEN IF ~IsDir(f, directory) THEN Result(f, None, "FileNotFoundError")
             ELSE IF IsDir(f, index) THEN Result(f, None, "IsADirectoryError")
             ELSE Result(Put(f, index,
                             FileEntry(RootHeader \o RootLinks(listing) \o RootFooter)),
                         index, "none")
        ELSE IF filename # <<>>
        THEN IF ~IsDir(f, directory) THEN Result(f, None, "NotADirectoryError")
             ELSE IF IsDir(f, index) THEN Result(f, None, "IsADirectoryError")
             ELSE Result(Put(f, index, FileEntry(old \o PackageLink(filename))),
                         index, "none")
        ELSE Result(f, None, "none")

\* shutil.copy2(source_file, dst) of the incoming file named filename
Copy2(f, filename, dst) ==
    LET target == IF IsDir(f, dst) THEN OsPathJoin(dst, filename) ELSE dst
    IN  IF IsDir(f, target) THEN Result(f, None, "IsADirectoryError")
        ELSE IF ~IsDir(f, Dirname(target)) THEN Result(f, None, "FileNotFoundError")
        ELSE Result(Put(f, target, FileEntry(PackageData(filename))), target, "none")

\* line 138-141
SimplePackageDirectory(temp_directory, filename) ==
    OsPathJoin(temp_directory, PackageKey(filename))

\* line 142
NeedsDirectory(items) == Star \in items \/ IndexHtml \in items

\* lines 159-165 without the test for '*'
NeedsPackageIndex_NoStar(items, simple_package_directory) ==
    FormatIndex(simple_package_directory) \in items

\* lines 159-165
NeedsPackageIndex(items, simple_package_directory) ==
    Star \in items \/ FormatIndex(simple_package_directory) \in items

\* lines 147-148
MakePackageDirectory(f, items, simple_package_directory) ==
    IF NeedsDirectory(items) THEN MakeDirs(f, simple_package_directory) ELSE f

\* lines 138-169 with the result of shutil.copy2 dropped (lines 155-158
\* without modified_files.add)
AddFile_ForgetsCopy(f, items, modified, filename, listing) ==
    LET spd == SimplePackageDirectory(TempDir, filename)
        out(g, m, e) == [fs |-> g, modified |-> m, err |-> e]
    IN  IF NeedsDirectory(items) /\ Exists(f, spd)
        THEN out(f, modified, "FileExistsError")
        ELSE
        LET f1 == MakePackageDirectory(f, items, spd)
            r1 == IF NeedsDirectory(items)
                  THEN create_index(f1, TempDir, <<>>, TRUE, listing)
                  ELSE Result(f1, None, "none")
            m1 == IF NeedsDirectory(items) THEN modified \cup {r1.ret} ELSE modified
        IN  IF r1.err # "none" THEN out(r1.fs, modified, r1.err)
            ELSE
            LET r2 == Copy2(r1.fs, filename, spd)
                m2 == m1
            IN  IF r2.err # "none" THEN out(r2.fs, m1, r2.err)
                ELSE IF ~NeedsPackageIndex(items, spd) THEN out(r2.fs, m2, "none")
                ELSE
                LET r3 == create_index(r2.fs, spd, filename, FALSE, <<>>)
                IN  IF r3.err # "none" THEN out(r3.fs, m2, r3.err)
                    ELSE out(r3.fs, m2 \cup {r3.ret}, "none")

\* lines 138-169, one file of the package directory: the file system, the
\* modified set and the error after it
AddFile(f, items, modified, filename, listing) ==
    LET spd == SimplePackageDirectory(TempDir, filename)
        out(g, m, e) == [fs |-> g, modified |-> m, err |-> e]
    IN  IF NeedsDirectory(items) /\ Exists(f, spd)
        THEN out(f, modified, "FileExistsError")
        ELSE
        LET f1 == MakePackageDirectory(f, items, spd)
            r1 == IF NeedsDirectory(items)
                  THEN create_index(f1, TempDir, <<>>, TRUE, listing)
                  ELSE Result(f1, None, "none")
            m1 == IF NeedsDirectory(items) THEN modified \cup {r1.ret} ELSE modified
        IN  IF r1.err # "none" THEN out(r1.fs, modified, r1.err)
            ELSE
            LET r2 == Copy2(r1.fs, filename, spd)
                m2 == m1 \cup {r2.ret}
            IN  IF r2.err # "none" THEN out(r2.fs, m1, r2.err)
                ELSE IF ~NeedsPackageIndex(items, spd) THEN out(r2.fs, m2, "none")
                ELSE
                LET r3 == create_index(r2.fs, spd, filename, FALSE, <<>>)
                IN  IF r3.err # "none" THEN out(r3.fs, m2, r3.err)
                    ELSE out(r3.fs, m2 \cup {r3.ret}, "none")

\* the orders in which os.listdir may give the sub-directories to line 55
Listings(f, items, filename) ==
    IF NeedsDirectory(items)
    THEN Orders(SubDirs(MakePackageDirectory(f, items,
                            SimplePackageDirectory(TempDir, filename)), TempDir))
    ELSE {<<>>}

\* line 135: os.path.isfile(source_file)
IsRegularFile(filename) == filename \notin SubDirectoryNames

\* lines 130-169, one entry of the package directory
MutateFile ==
    /\ pc = "mutate"
    /\ \E filename \in mutTodo :
          IF ~IsRegularFile(filename)
          THEN \* continue
               /\ mutTodo' = mutTodo \ {filename}
               /\ UNCHANGED << fs, modified_files, pc, outcome >>
          ELSE IF new_index_files.isNone
          THEN \* '*' in None
               /\ Raise("TypeError")
               /\ UNCHANGED << fs, modified_files, mutTodo >>
          ELSE \E listing \in Listings(fs, new_index_files.items, filename) :
                  LET r == AddFile(fs, new_index_files.items, modified_files,
                                   filename, listing)
                  IN  /\ fs' = r.fs
                      /\ modified_files' = r.modified
                      /\ IF r.err = "none"
                         THEN /\ mutTodo' = mutTodo \ {filename}
                              /\ UNCHANGED << pc, outcome >>
                         ELSE /\ Raise(r.err)
                              /\ UNCHANGED mutTodo
    /\ UNCHANGED << call, bucket, incoming, upload, authOk, rootWritable,
                    new_index_files, download_files, planTodo, dlTodo, upTodo,
                    checks, fetched, written, bucketAtStart, uploadCut, runs >>

\* lines 170-171 and 378-385
MutateEnd ==
    /\ pc = "mutate"
    /\ mutTodo = {}
    /\ modified_files' = modified_files \ {None}
    /\ pc' = IF upload THEN "upconnect" ELSE "cleanup"
    /\ UNCHANGED << call, fs, bucket, incoming, upload, authOk, rootWritable,
                    new_index_files, download_files, planTodo, dlTodo, mutTodo,
                    upTodo, checks, fetched, written, outcome, bucketAtStart,
                    uploadCut, runs >>

(***************************************************************************)
(* upload_to_s3                                                            *)
(***************************************************************************)
\* lines 290-300
UploadConnect ==
    /\ pc = "upconnect"
    /\ IF authOk
       THEN /\ pc' = "upload"
            /\ upTodo' = modified_files
       ELSE /\ pc' = "cleanup"
            /\ UNCHANGED upTodo
    /\ UNCHANGED << call, fs, bucket, incoming, upload, authOk, rootWritable,
                    new_index_files, download_files, modified_files,
                    planTodo, dlTodo, mutTodo, checks, fetched, written,
                    outcome, bucketAtStart, uploadCut, runs >>

\* lines 303-309
UploadKey(directory, modified_file) ==
    SlashJoin(S3Prefix, SliceFrom(modified_file, Len(directory) + 1))

\* lines 316-319 without set_acl: the object keeps the private default
Object_NoAcl(content, acl) == [content |-> content, acl |-> "private"]

\* lines 316-319: the object a key holds, with its canned ACL
Object(content, acl) == [content |-> content, acl |-> acl]

\* lines 302-319, one modified file
UploadFile ==
    /\ pc = "upload"
    /\ \E modified_file \in upTodo :
          LET name == UploadKey(TempDir, modified_file)
          IN  IF ~IsFile(fs, modified_file)
              THEN /\ Raise("IsADirectoryError")
                   /\ uploadCut' = TRUE
                   /\ UNCHANGED << bucket, upTodo, written >>
              ELSE /\ bucket' = Put(bucket, name,
                                    Object(fs[modified_file].content, "public-read"))
                   /\ written' = written \cup {name}
                   /\ upTodo' = upTodo \ {modified_file}
                   /\ UNCHANGED << pc, outcome, uploadCut >>
    /\ UNCHANGED << call, fs, incoming, upload, authOk, rootWritable,
                    new_index_files, download_files, modified_files,
                    planTodo, dlTodo, mutTodo, checks, fetched,
                    bucketAtStart, runs >>

\* lines 316-319 when the bucket refuses: the put fails, or the put is done
\* and set_acl fails
UploadError ==
    /\ pc = "upload"
    /\ \E modified_file \in upTodo :
          LET name == UploadKey(TempDir, modified_file)
          IN  /\ IsFile(fs, modified_file)
              /\ \/ UNCHANGED << bucket, written >>
                 \/ /\ bucket' = Put(bucket, name,
                                     Object(fs[modified_file].content, "private"))
                    /\ written' = written \cup {name}
    /\ Raise("S3ResponseError")
    /\ uploadCut' = TRUE
    /\ UNCHANGED << call, fs, incoming, upload, authOk, rootWritable,
                    new_index_files, download_files, modified_files,
                    planTodo, dlTodo, mutTodo, upTodo, checks, fetched,
                    bucketAtStart, runs >>

\* the loop of line 302 is over: upload_to_s3 returns
UploadEnd ==
    /\ pc = "upload"
    /\ upTodo = {}
    /\ pc' = "cleanup"
    /\ UNCHANGED << call, fs, bucket, incoming, upload, authOk, rootWritable,
                    new_index_files, download_files, modified_files,
                    planTodo, dlTodo, mutTodo, upTodo, checks, fetched, written,
                    outcome, bucketAtStart, uploadCut, runs >>

(***************************************************************************)
(* The end of main.                                                        *)
(***************************************************************************)
\* the process is over: its variables are gone
ProcessExit ==
    /\ pc' = "exited"
    /\ incoming' = {}
    /\ upload' = FALSE
    /\ authOk' = TRUE
    /\ new_index_files' = NifSet({})
    /\ download_files' = {}
    /\ modified_files' = {}
    /\ planTodo' = {}
    /\ dlTodo' = {}
    /\ mutTodo' = {}
    /\ upTodo' = {}
    /\ checks' = EmptyBag
    /\ fetched' = {}
    /\ written' = {}
    /\ bucketAtStart' = EmptyFn
    /\ UNCHANGED << call, bucket, rootWritable, uploadCut, runs >>

\* line 394, and main returns
Cleanup ==
    /\ pc = "cleanup"
    /\ fs' = RmTree(fs, TempDir)
    /\ outcome' = "ok"
    /\ ProcessExit

\* a directory made with mkdtemp: nothing removes it
FinalizeTemporaryDirectory_Mkdtemp(f) == f

\* what the TemporaryDirectory object of line 365 does to its directory when
\* the object is finalized without cleanup() having been called
FinalizeTemporaryDirectory(f) == RmTree(f, TempDir)

\* an exception has left main: the interpreter exits and finalizes the
\* TemporaryDirectory object
ImplicitCleanup ==
    /\ pc = "raised"
    /\ fs' = FinalizeTemporaryDirectory(fs)
    /\ UNCHANGED outcome
    /\ ProcessExit

Next ==
    \/ StartRun
    \/ PlanConnect
    \/ PlanEntry
    \/ PlanLoopEnd
    \/ Download
    \/ DownloadEnd
    \/ MutateFile
    \/ MutateEnd
    \/ UploadConnect
    \/ UploadFile
    \/ UploadError
    \/ UploadEnd
    \/ Cleanup
    \/ ImplicitCleanup

Spec == Init /\ [][Next]_vars

(***************************************************************************)
(* Functions called on their own, as the unit tests call them.  The        *)
(* variables of main stay as they are between two runs; call holds the     *)
(* arguments and, once the function has returned, its result.              *)
(***************************************************************************)
mainVars == << bucket, pc, incoming, upload, authOk, rootWritable,
               new_index_files, download_files, modified_files,
               planTodo, dlTodo, mutTodo, upTodo,
               checks, fetched, written, outcome, bucketAtStart, uploadCut, runs >>

MainIdle ==
    /\ bucket = EmptyFn
    /\ pc = "exited"
    /\ incoming = {}
    /\ upload = FALSE
    /\ authOk = TRUE
    /\ rootWritable = FALSE
    /\ new_index_files = NifSet({})
    /\ download_files = {}
    /\ modified_files = {}
    /\ planTodo = {}
    /\ dlTodo = {}
    /\ mutTodo = {}
    /\ upTodo = {}
    /\ checks = EmptyBag
    /\ fetched = {}
    /\ written = {}
    /\ outcome = "none"
    /\ bucketAtStart = EmptyFn
    /\ uploadCut = FALSE
    /\ runs = 0

(***************************************************************************)
(* ensure_ends_with_slash called on a string, then on its own result.      *)
(***************************************************************************)
Chars == {"a", "b", Slash}

Strings == UNION {[1..n -> Chars] : n \in 0..MaxStrLen}

EnsureInit ==
    /\ MainIdle
    /\ fs = EmptyFn
    /\ \E string \in Strings :
          call = [op |-> "ensure_ends_with_slash", string |-> string,
                  calls |-> 0, ret |-> None, again |-> None]

\* ensure_ends_with_slash(string)
EnsureCall ==
    /\ call.op = "ensure_ends_with_slash"
    /\ call.calls = 0
    /\ call' = [call EXCEPT !.calls = 1, !.ret = ensure_ends_with_slash(call.string)]
    /\ UNCHANGED << fs, mainVars >>

\* ensure_ends_with_slash(ensure_ends_with_slash(string))
EnsureAgain ==
    /\ call.op = "ensure_ends_with_slash"
    /\ call.calls = 1
    /\ call' = [call EXCEPT !.calls = 2, !.again = ensure_ends_with_slash(call.ret)]
    /\ UNCHANGED << fs, mainVars >>

EnsureNext == EnsureCall \/ EnsureAgain

EnsureSpec == EnsureInit /\ [][EnsureNext]_vars

(***************************************************************************)
(* create_index called on a directory, then once more with the same        *)
(* arguments.  The directory tree is drawn under the temporary directory:  *)
(* each of the names of DirNames is missing, a directory or a regular      *)
(* file; the root page is missing, a stale page or a directory; the page   *)
(* of a package directory is missing or links one file.                    *)
(***************************************************************************)
AllDirNames == << <<"a">>, <<"b">>, <<"c">> >>

DirNames == {AllDirNames[i] : i \in 1..Min(NumDirs, Len(AllDirNames))}

\* a root page written when the directory held other sub-directories
StaleRootPage == RootHeader \o RootLink(<<"z">>) \o RootFooter

StalePackagePage == PackageLink(AllNames[1])

Tree(kinds, rootIndex, pages) ==
    LET base == MakeDirs(EmptyFn, TempDir)
        entry(d) == IF kinds[d] = "dir" THEN DirEntry ELSE FileEntry(PackageData(d))
        E == {d \in DirNames : kinds[d] # "none"}
        P == {d \in pages : kinds[d] = "dir"}
        paths == {TempDir} \cup {OsPathJoin(TempDir, d) : d \in E}
                 \cup {OsPathJoin(OsPathJoin(TempDir, d), IndexHtml) : d \in P}
                 \cup (IF rootIndex = "none" THEN {} ELSE {OsPathJoin(TempDir, IndexHtml)})
    IN  [q \in paths |->
            IF q = TempDir THEN DirEntry
            ELSE IF q = OsPathJoin(TempDir, IndexHtml)
            THEN (IF rootIndex = "dir" THEN DirEntry ELSE FileEntry(StaleRootPage))
            ELSE IF \E d \in E : q = OsPathJoin(TempDir, d)
            THEN entry(CHOOSE d \in E : q = OsPathJoin(TempDir, d))
            ELSE FileEntry(StalePackagePage)]

Trees ==
    {Tree(kinds, rootIndex, pages) :
        kinds \in [DirNames -> {"none", "dir", "file"}],
        rootIndex \in {"none", "file", "dir"},
        pages \in SUBSET DirNames}

\* the directories create_index is called on: the temporary directory, a
\* name inside it (a package directory, a regular file or nothing)
CallDirectories == {TempDir} \cup {OsPathJoin(TempDir, AllDirNames[1])}

CreateIndexInit ==
    /\ MainIdle
    /\ fs \in Trees
    /\ \E directory \in CallDirectories, filename \in {<<>>, AllNames[2]},
          root \in BOOLEAN :
          \E listing \in Orders(SubDirs(fs, directory)) :
             call = [op |-> "create_index", directory |-> directory,
                     filename |-> filename, root |-> root, listing |-> listing,
                     calls |-> 0, ret |-> None, err |-> "none",
                     before |-> fs, first |-> fs]

\* create_index(directory, filename, root)
CreateIndexCall ==
    /\ call.op = "create_index"
    /\ call.calls = 0
    /\ LET r == create_index(fs, call.directory, call.filename, call.root,
                             call.listing)
       IN  /\ fs' = r.fs
           /\ call' = [call EXCEPT !.calls = 1, !.ret = r.ret, !.err = r.err,
                                   !.first = r.fs]
    /\ UNCHANGED mainVars

\* the same call once more, the directory listing being what it was
CreateIndexAgain ==
    /\ call.op = "create_index"
    /\ call.calls = 1
    /\ call.err = "none"
    /\ LET r == create_index(fs, call.directory, call.filename, call.root,
                             call.listing)
       IN  /\ fs' = r.fs
           /\ call' = [call EXCEPT !.calls = 2, !.ret = r.ret, !.err = r.err]
    /\ UNCHANGED mainVars

CreateIndexNext == CreateIndexCall \/ CreateIndexAgain

CreateIndexSpec == CreateIndexInit /\ [][CreateIndexNext]_vars

(***************************************************************************)
(* load_settings called on a config file.  A config file is missing, or    *)
(* a sequence of sections with different names; a section gives some of     *)
(* the options, each with the section's own name as value (as the tests    *)
(* write section.name=other).  The two other files load_settings reads     *)
(* are taken to be missing.                                                *)
(***************************************************************************)
DefaultSection == "default"

\* lines 89-95: defaults={...}
BuiltinDefaults == [o \in {"s3.bucket", "s3.prefix", "upload"} |->
                       CASE o = "s3.bucket" -> ""
                         [] o = "s3.prefix" -> "simple"
                         [] o = "upload" -> "False"]

SectionNames == {DefaultSection, "other", "extra"}

FileOptions == {"s3.prefix", "section.name"}

Options == FileOptions \cup DOMAIN BuiltinDefaults

Section(name, given) == [name |-> name, options |-> [o \in given |-> name]]

ConfigFiles ==
    {[exists |-> FALSE, sections |-> <<>>]} \cup
    {[exists |-> TRUE, sections |-> [i \in 1..n |-> Section(names[i], given[i])]] :
        <<n, names, given>> \in
            UNION {{<<m, ns, gs>> :
                      ns \in {x \in [1..m -> SectionNames] :
                                 \A i, j \in 1..m : x[i] = x[j] => i = j},
                      gs \in [1..m -> SUBSET FileOptions]} : m \in 0..MaxSections}}

\* settings.read: the options of the default section are laid over the
\* built-in defaults, the other sections are kept in the order of the file
ReadDefaults(config) ==
    LET idx == {i \in 1..Len(config.sections) :
                   config.sections[i].name = DefaultSection}
        given == IF idx = {} THEN [o \in {} |-> o]
                 ELSE config.sections[CHOOSE i \in idx : TRUE].options
    IN  [o \in (DOMAIN BuiltinDefaults) \cup (DOMAIN given) |->
            IF o \in DOMAIN given THEN given[o] ELSE BuiltinDefaults[o]]

IsNamedSection(section) == section.name # DefaultSection

\* settings.sections(): the default section is never one of them
Sections(config) == SelectSeq(config.sections, IsNamedSection)

\* settings.has_section(name)
HasSection(config, name) ==
    \E i \in 1..Len(Sections(config)) : Sections(config)[i].name = name

\* settings[name]: the section's own options, backed by the defaults
SectionProxy(config, name) ==
    LET secs == Sections(config)
        idx == {i \in 1..Len(secs) : secs[i].name = name}
    IN  [name |-> name,
         options |-> IF idx = {} THEN [o \in {} |-> o]
                     ELSE secs[CHOOSE i \in idx : TRUE].options,
         defaults |-> ReadDefaults(config)]

\* settings.get(option): None when neither the section nor the defaults
\* give the option
NoValue == "None"

Get(settings, option) ==
    IF option \in DOMAIN settings.options THEN settings.options[option]
    ELSE IF option \in DOMAIN settings.defaults THEN settings.defaults[option]
    ELSE NoValue

\* lines 87-112
load_settings(config) ==
    IF HasSection(config, DefaultSection)
    THEN SectionProxy(config, DefaultSection)
    ELSE IF Len(Sections(config)) # 0
    THEN SectionProxy(config, Sections(config)[1].name)
    ELSE SectionProxy(config, "." \o DefaultSection)

SettingsInit ==
    /\ MainIdle
    /\ fs = EmptyFn
    /\ \E config \in ConfigFiles :
          call = [op |-> "load_settings", config |-> config, calls |-> 0,
                  settings |-> SectionProxy(config, "")]

\* load_settings(config_path)
SettingsCall ==
    /\ call.op = "load_settings"
    /\ call.calls = 0
    /\ call' = [call EXCEPT !.calls = 1, !.settings = load_settings(call.config)]
    /\ UNCHANGED << fs, mainVars >>

SettingsNext == SettingsCall

SettingsSpec == SettingsInit /\ [][SettingsNext]_vars

(***************************************************************************)
(* add_new_files_to_index called on its own: on a staging tree that may    *)
(* already hold packages, a package directory and a set of new index       *)
(* files.  A staged package is a directory with the package file (an       *)
(* older copy) and a page linking it; the root page links the staged       *)
(* directories.                                                            *)
(***************************************************************************)
StagedFiles == {AllNames[1], AllNames[3]} \cap Names

OldData == << [t |-> "old data", ind |-> 0, href |-> <<>>, text |-> <<>>] >>

StagedDirectory(filename) == OsPathJoin(TempDir, PackageKey(filename))

StagedFile(filename) == OsPathJoin(StagedDirectory(filename), filename)

StagedPage(filename) == OsPathJoin(StagedDirectory(filename), IndexHtml)

RootPage == OsPathJoin(TempDir, IndexHtml)

\* kinds[f] is "none", "empty" (the directory alone) or "published"
StagingTree(kinds, withRoot, listing) ==
    LET D == {f \in StagedFiles : kinds[f] # "none"}
        P == {f \in StagedFiles : kinds[f] = "published"}
        paths == {TempDir} \cup {StagedDirectory(f) : f \in D}
                 \cup {StagedFile(f) : f \in P} \cup {StagedPage(f) : f \in P}
                 \cup (IF withRoot THEN {RootPage} ELSE {})
    IN  [q \in paths |->
            IF q = RootPage
            THEN FileEntry(RootHeader \o RootLinks(listing) \o RootFooter)
            ELSE IF \E f \in P : q = StagedFile(f) THEN FileEntry(OldData)
            ELSE IF \E f \in P : q = StagedPage(f)
            THEN FileEntry(PackageLink(CHOOSE f \in P : q = StagedPage(f)))
            ELSE DirEntry]

StagingTrees ==
    UNION {{StagingTree(kinds, withRoot, listing) :
               withRoot \in BOOLEAN,
               listing \in Orders({PackageKey(f) : f \in {g \in StagedFiles : kinds[g] # "none"}})} :
           kinds \in [StagedFiles -> {"none", "empty", "published"}]}

\* what download_from_s3 may hand over for a package directory
Plans(files) ==
    {NifNone, NifSet({Star})} \cup
    {NifSet(S) : S \in SUBSET ({IndexHtml} \cup
                               {FormatIndex(PackageKey(f)) : f \in files})}

MutatorInit ==
    /\ fs \in StagingTrees
    /\ incoming \in SUBSET Names
    /\ new_index_files \in Plans({f \in incoming : IsRegularFile(f)})
    /\ mutTodo = incoming
    /\ pc = "mutate"
    /\ outcome = "running"
    /\ call = [op |-> "add_new_files_to_index", before |-> fs]
    /\ bucket = EmptyFn
    /\ upload = FALSE
    /\ authOk = TRUE
    /\ rootWritable = FALSE
    /\ download_files = {}
    /\ modified_files = {}
    /\ planTodo = {}
    /\ dlTodo = {}
    /\ upTodo = {}
    /\ checks = EmptyBag
    /\ fetched = {}
    /\ written = {}
    /\ bucketAtStart = EmptyFn
    /\ uploadCut = FALSE
    /\ runs = 1

MutatorNext == MutateFile \/ MutateEnd

MutatorSpec == MutatorInit /\ [][MutatorNext]_vars

(***************************************************************************)
(* Notions the properties share.                                           *)
(***************************************************************************)
\* main is about to end: normally (line 394 is next) or by an exception
RunEnding == pc \in {"cleanup", "raised"}

\* download_from_s3 has returned to main
PlannerReturned == pc \in {"mutate", "upconnect", "upload", "cleanup"}

\* the run synchronises with a bucket it can reach
Syncing == upload /\ authOk /\ pc # "exited"

\* the path of an object below the prefix
Rel(name) == SliceFrom(name, Len(S3Prefix) + 1)

KeysOf(files) == {PackageKey(f) : f \in files}

PublishedAtStart(f) ==
    /\ RootKey \in DOMAIN bucketAtStart
    /\ PageKey(PackageKey(f)) \in DOMAIN bucketAtStart
    /\ FileKey(PackageKey(f), f) \in DOMAIN bucketAtStart

\* the package page exists remotely, the file does not
MissingFromPageAtStart(f) ==
    /\ RootKey \in DOMAIN bucketAtStart
    /\ PageKey(PackageKey(f)) \in DOMAIN bucketAtStart
    /\ FileKey(PackageKey(f), f) \notin DOMAIN bucketAtStart

StagingEmpty(f) == ListDir(f, TempDir) = {}

(***************************************************************************)
(* C1: after any sequence of completed runs from an empty bucket, every    *)
(* package file object stored under a package key is linked from that      *)
(* key's remote index.html, and every key with objects in the bucket is    *)
(* linked from the remote root index.html.                                 *)
(***************************************************************************)
C1_IndexComplete ==
    (pc = "exited" /\ ~uploadCut) =>
        \A name \in DOMAIN bucket :
            LET rel == Rel(name)
                key == SplitFirst(rel, Slash)
            IN  rel # IndexHtml =>
                  /\ RootKey \in DOMAIN bucket
                  /\ (key \o <<Slash>>) \in Hrefs(bucket[RootKey].content)
                  /\ (Len(rel) > Len(key) /\ Basename(rel) # IndexHtml) =>
                        /\ PageKey(key) \in DOMAIN bucket
                        /\ Basename(rel) \in Hrefs(bucket[PageKey(key)].content)

\* two runs have completed and the bucket holds package files of two keys
C1_Witness ==
    /\ pc = "exited"
    /\ ~uploadCut
    /\ runs = 2
    /\ outcome = "ok"
    /\ \E f, g \in Names :
          /\ PackageKey(f) # PackageKey(g)
          /\ FileKey(PackageKey(f), f) \in DOMAIN bucket
          /\ FileKey(PackageKey(g), g) \in DOMAIN bucket
    /\ \E f \in Names : SlashJoin(S3Prefix, PackageKey(f)) \in DOMAIN bucket

(***************************************************************************)
(* C2: for an incoming file whose package page exists remotely and which   *)
(* is absent remotely, the planner marks the page as to be modified, and   *)
(* when add_new_files_to_index has returned the package's index.html in    *)
(* staging is the remote page followed by a link to the file, and is in    *)
(* the modified set.                                                       *)
(***************************************************************************)
C2_PageAppended ==
    \A f \in incoming :
        (pc = "upconnect" /\ Syncing /\ MissingFromPageAtStart(f)) =>
            LET key == PackageKey(f)
                page == FormatIndex(SimplePackageDirectory(TempDir, f))
                remote == bucketAtStart[PageKey(key)].content
            IN  /\ FormatIndex(key) \in new_index_files.items
                /\ IsFile(fs, page)
                /\ Len(fs[page].content) > Len(remote)
                /\ SubSeq(fs[page].content, 1, Len(remote)) = remote
                /\ f \in Hrefs(SubSeq(fs[page].content, Len(remote) + 1,
                                      Len(fs[page].content)))
                /\ page \in modified_files

(***************************************************************************)
(* C3: with one incoming file f of key k and an empty staging tree,        *)
(* add_new_files_to_index leaves k/ holding f and an index.html linking f, *)
(* a root index.html linking k/, and returns exactly                       *)
(* {index.html, k/index.html, k/f}.                                        *)
(***************************************************************************)
C3_MutatorPost(f) ==
    LET spd == SimplePackageDirectory(TempDir, f)
        root == OsPathJoin(TempDir, IndexHtml)
        page == OsPathJoin(spd, IndexHtml)
        file == OsPathJoin(spd, f)
    IN  /\ pc = "mutate"
        /\ mutTodo = {}
        /\ IsDir(fs, spd)
        /\ IsFile(fs, file)
        /\ IsFile(fs, page)
        /\ f \in Hrefs(fs[page].content)
        /\ IsFile(fs, root)
        /\ (PackageKey(f) \o <<Slash>>) \in Hrefs(fs[root].content)
        /\ modified_files = {root, page, file}

C3_Scenario1 ==
    [][\A f \in Names :
          (/\ pc = "mutate"
           /\ IsRegularFile(f)
           /\ incoming = {f}
           /\ mutTodo = {f}
           /\ StagingEmpty(fs))
              => C3_MutatorPost(f)']_vars

(***************************************************************************)
(* C4: when an incoming file has a key never seen remotely and the remote  *)
(* root index exists, the run regenerates the root index so that it links  *)
(* every key the remote root linked before and the new key.                *)
(***************************************************************************)
NewKeysAtStart ==
    {k \in KeysOf({f \in incoming : IsRegularFile(f)}) :
        PageKey(k) \notin DOMAIN bucketAtStart}

C4_RootKeepsAll ==
    (/\ RunEnding
     /\ Syncing
     /\ outcome # "S3ResponseError"
     /\ RootKey \in DOMAIN bucketAtStart
     /\ NewKeysAtStart # {}) =>
        /\ pc = "cleanup"
        /\ Hrefs(bucketAtStart[RootKey].content) \subseteq Hrefs(bucket[RootKey].content)
        /\ \A k \in NewKeysAtStart : (k \o <<Slash>>) \in Hrefs(bucket[RootKey].content)

(***************************************************************************)
(* C5: when every incoming file is already published, the run downloads    *)
(* nothing, changes no local file and leaves the bucket's objects and      *)
(* their contents as they were.                                            *)
(***************************************************************************)
C5_PublishedUntouched ==
    (/\ pc = "cleanup"
     /\ Syncing
     /\ incoming # {}
     /\ \A f \in incoming : PublishedAtStart(f)) =>
        /\ fetched = {}
        /\ modified_files = {}
        /\ bucket = bucketAtStart

(***************************************************************************)
(* C6: when the remote root index does not exist, download_from_s3 returns *)
(* the sentinel '*' alone, asks the bucket about no package and downloads  *)
(* nothing, whatever the incoming files are.                               *)
(***************************************************************************)
C6_Uninitialised ==
    (Syncing /\ pc # "connect" /\ RootKey \notin DOMAIN bucketAtStart) =>
        /\ new_index_files = NifSet({Star})
        /\ checks = SetToBag({RootKey})
        /\ download_files = {}
        /\ fetched = {}
        /\ pc # "plan"
        /\ pc # "download"

C6_Witness ==
    /\ Syncing
    /\ pc = "mutate"
    /\ RootKey \notin DOMAIN bucketAtStart
    /\ Cardinality(incoming) >= 2
    /\ new_index_files = NifSet({Star})

(***************************************************************************)
(* C7: when the remote root index exists and every incoming file's package *)
(* page exists remotely, the planner downloads exactly the package pages   *)
(* k/index.html of the keys k with an incoming file absent remotely, and   *)
(* never the root index.                                                   *)
(***************************************************************************)
C7_Expected ==
    {FormatIndex(PackageKey(f)) : f \in {g \in incoming : MissingFromPageAtStart(g)}}

C7_Case ==
    /\ Syncing
    /\ RootKey \in DOMAIN bucketAtStart
    /\ \A f \in incoming : PageKey(PackageKey(f)) \in DOMAIN bucketAtStart

C7_MinimalDownloads ==
    C7_Case =>
        /\ fetched \subseteq {SlashJoin(S3Prefix, p) : p \in C7_Expected}
        /\ RootKey \notin fetched
        /\ (pc = "download" \/ (pc = "plan" /\ planTodo = {}) \/ PlannerReturned)
               => download_files = C7_Expected
        /\ PlannerReturned => fetched = {SlashJoin(S3Prefix, p) : p \in C7_Expected}

\* one incoming file is published, another of the same key is not: one page is fetched
C7_Witness ==
    /\ C7_Case
    /\ pc = "mutate"
    /\ \E f, g \in incoming : PublishedAtStart(f) /\ MissingFromPageAtStart(g)
    /\ Cardinality(fetched) = 1

C9_RemoteUnavailable ==
    (RunEnding /\ upload /\ ~authOk) =>
        /\ pc = "raised"
        /\ outcome = "RemoteUnavailable"

(***************************************************************************)
(* C10: the temporary directory is deleted on every exit path of the run,  *)
(* on normal completion and when the planner, the mutator or the uploader  *)
(* fails.                                                                  *)
(***************************************************************************)
C10_StagingReleased ==
    pc = "exited" =>
        /\ ~Exists(fs, TempDir)
        /\ \A p \in DOMAIN fs : ~IsUnder(p, TempDir)

\* a run that failed in the mutator has exited
C10_Witness ==
    /\ pc = "exited"
    /\ outcome = "FileExistsError"

(***************************************************************************)
(* C11: the phases of a run follow one another.  Once download_from_s3 has *)
(* returned, every download it scheduled has been fetched and none is      *)
(* pending; and a remote object is written by the run only while           *)
(* upload_to_s3 runs, when every entry of the package directory has been   *)
(* handled by add_new_files_to_index and the modified set is final.        *)
(***************************************************************************)
ScheduledKeys == {SlashJoin(S3Prefix, p) : p \in download_files}

RemoteWritten == written # {} \/ (pc # "exited" /\ bucket # bucketAtStart)

C11_PhaseOrder ==
    /\ PlannerReturned => (fetched = ScheduledKeys /\ dlTodo = {})
    /\ pc \in {"connect", "plan", "download"} => (modified_files = {} /\ written = {})
    /\ RemoteWritten => (pc \in {"upload", "cleanup", "raised"} /\ mutTodo = {})
    /\ pc = "upload" => (upTodo \subseteq modified_files /\ None \notin modified_files)

\* an upload is under way in a run that downloaded and then mutated
C11_Witness ==
    /\ pc = "upload"
    /\ written # {}
    /\ fetched # {}
    /\ modified_files # {}

(***************************************************************************)
(* C12: when a run with --upload has completed, the objects upload_to_s3   *)
(* wrote are exactly the keys of the files in the modified set, one key    *)
(* for each file; every one of them holds the content of its file and is   *)
(* public-read, and no other object of the bucket was written or removed.  *)
(***************************************************************************)
UploadCompleted == pc = "cleanup" /\ upload

C12_UploadExact ==
    UploadCompleted =>
        /\ written = {UploadKey(TempDir, m) : m \in modified_files}
        /\ Cardinality(written) = Cardinality(modified_files)
        /\ \A m \in modified_files :
              /\ UploadKey(TempDir, m) \in DOMAIN bucket
              /\ bucket[UploadKey(TempDir, m)].content = fs[m].content
              /\ bucket[UploadKey(TempDir, m)].acl = "public-read"
        /\ DOMAIN bucket = DOMAIN bucketAtStart \cup written
        /\ \A k \in DOMAIN bucketAtStart \ written : bucket[k] = bucketAtStart[k]

\* a completed upload of several files
C12_Witness ==
    /\ UploadCompleted
    /\ Cardinality(modified_files) >= 2
    /\ Cardinality(written) >= 2

(***************************************************************************)
(* C13: remote keys and paths below the staging directory correspond one   *)
(* to one, the same way in both directions: for every relative path p the  *)
(* planner scheduled and the run fetched, the object was written to the    *)
(* file p of the staging directory, inside the staging tree, and the key   *)
(* upload_to_s3 gives the file the download wrote is the key that was read.*)
(***************************************************************************)
C13_KeyPathAgree ==
    \A p \in download_files :
        SlashJoin(S3Prefix, p) \in fetched =>
            /\ LocalFile(TempDir, p) = OsPathJoin(TempDir, p)
            /\ IsUnder(LocalFile(TempDir, p), TempDir)
            /\ IsFile(fs, OsPathJoin(TempDir, p))
            /\ UploadKey(TempDir, LocalFile(TempDir, p)) = SlashJoin(S3Prefix, p)

(***************************************************************************)
(* C17: add_new_files_to_index makes the staging sub-directory of a        *)
(* package only when it is missing and never fails because it exists:      *)
(* called with a plan of the planner, it handles every entry of the        *)
(* package directory and returns, also when several files resolve to one   *)
(* package key.                                                            *)
(***************************************************************************)
MutatorFailed == pc = "raised" /\ mutTodo # {} /\ ~new_index_files.isNone

C17_MutatorCompletes == ~MutatorFailed /\ outcome # "FileExistsError"

(***************************************************************************)
(* C20: ensure_ends_with_slash(s) is s itself when s ends with '/', and s  *)
(* followed by '/' otherwise; applied to its own result it returns that    *)
(* result, for every string s (the empty one included).                    *)
(***************************************************************************)
C20_EnsureSlash ==
    (call.op = "ensure_ends_with_slash" /\ call.calls >= 1) =>
        LET s == call.string
        IN  /\ (Len(s) > 0 /\ s[Len(s)] = "/") => call.ret = s
            /\ (Len(s) = 0 \/ s[Len(s)] # "/") => call.ret = Append(s, "/")
            /\ call.calls = 2 => call.again = call.ret

\* both calls made on a string that needed the slash
C20_Witness ==
    /\ call.op = "ensure_ends_with_slash"
    /\ call.calls = 2
    /\ call.string = <<"a", "/", "b">>
    /\ call.again = <<"a", "/", "b", "/">>

(***************************************************************************)
(* C15: create_index(directory, filename, root), called on an existing     *)
(* directory, returns the path directory/index.html, and that file exists  *)
(* afterwards, whenever root is true or filename is not empty; when root   *)
(* is false and filename is empty it returns None and the file system is   *)
(* left as it was: no index.html is created or modified.                   *)
(***************************************************************************)
CreateIndexReturned ==
    call.op = "create_index" /\ call.calls = 1 /\ call.err = "none"

C15_IndexReturned ==
    (call.op = "create_index" /\ call.calls = 1) =>
        LET index == call.directory \o <<"/">> \o IndexHtml
            writes == call.root \/ call.filename # <<>>
        IN  /\ (IsDir(call.before, call.directory) /\ ~IsDir(call.before, index))
                  => call.err = "none"
            /\ (call.err = "none" /\ writes) =>
                  (call.ret = index /\ IsFile(fs, index))
            /\ (call.err = "none" /\ ~writes) =>
                  (call.ret = None /\ fs = call.before)
            /\ call.err # "none" => fs = call.before

\* a package page made in a directory that had none
C15_Witness ==
    /\ CreateIndexReturned
    /\ ~call.root
    /\ call.filename # <<>>
    /\ ~Exists(call.before, OsPathJoin(call.directory, IndexHtml))
    /\ call.ret = OsPathJoin(call.directory, IndexHtml)

(***************************************************************************)
(* C19: create_index(directory, root=True) rebuilds the root page in full: *)
(* whatever the page held before, it links exactly the sub-directories of  *)
(* the directory, each once, and no regular file (index.html included);    *)
(* called a second time with the directory listing unchanged it leaves     *)
(* the very same page.                                                     *)
(***************************************************************************)
AnchorCount(content) == Cardinality({i \in 1..Len(content) : content[i].t = "a"})

C19_RootRebuild ==
    (call.op = "create_index" /\ call.root /\ call.calls >= 1 /\ call.err = "none") =>
        LET index == call.directory \o <<"/">> \o IndexHtml
            page == fs[index].content
            subs == {d \in ListDir(call.before, call.directory) :
                        IsDir(call.before, call.directory \o <<"/">> \o d)}
        IN  /\ Hrefs(page) = {d \o <<"/">> : d \in subs}
            /\ AnchorCount(page) = Cardinality(subs)
            /\ Len(page) = Len(RootHeader) + 2 * Cardinality(subs) + Len(RootFooter)
            /\ \A q \in DOMAIN fs \ {index} : q \in DOMAIN call.before /\ fs[q] = call.before[q]
            /\ call.calls = 2 => fs = call.first

\* the root page rebuilt twice over a stale page, in a directory that holds
\* a sub-directory and a regular file
C19_Witness ==
    /\ call.op = "create_index"
    /\ call.root
    /\ call.calls = 2
    /\ call.err = "none"
    /\ call.directory = TempDir
    /\ IsFile(call.before, OsPathJoin(TempDir, IndexHtml))
    /\ call.before[OsPathJoin(TempDir, IndexHtml)].content = StaleRootPage
    /\ \E d \in DirNames : IsDir(call.before, OsPathJoin(TempDir, d))
    /\ \E d \in DirNames : IsFile(call.before, OsPathJoin(TempDir, d))

(***************************************************************************)
(* C16: load_settings resolves every option so, whatever sections the      *)
(* config file has: with a [default] section, the values of [default]      *)
(* (before those of any other section); without one but with another       *)
(* section, the values of the first such section, as if it were the        *)
(* default section; with no section at all, the built-in defaults.         *)
(***************************************************************************)
SectionsNamed(config, name) ==
    {i \in 1..Len(config.sections) : config.sections[i].name = name}

OthersOf(config) ==
    {i \in 1..Len(config.sections) : config.sections[i].name # "default"}

BuiltinOr(option, fallback) ==
    IF option \in DOMAIN BuiltinDefaults THEN BuiltinDefaults[option] ELSE fallback

ValueIn(section, option, fallback) ==
    IF option \in DOMAIN section.options THEN section.options[option] ELSE fallback

C16_Expected(config, option) ==
    IF SectionsNamed(config, "default") # {}
    THEN ValueIn(config.sections[CHOOSE i \in SectionsNamed(config, "default") : TRUE],
                 option, BuiltinOr(option, "None"))
    ELSE IF OthersOf(config) # {}
    THEN ValueIn(config.sections[CHOOSE i \in OthersOf(config) :
                                    \A j \in OthersOf(config) : i <= j],
                 option, BuiltinOr(option, "None"))
    ELSE BuiltinOr(option, "None")

C16_SettingsResolved ==
    (call.op = "load_settings" /\ call.calls = 1) =>
        \A option \in Options :
            Get(call.settings, option) = C16_Expected(call.config, option)

(***************************************************************************)
(* C14: when the staging tree already holds the directory of a package     *)
(* with the file f in it and linked from the package page, and the         *)
(* package directory delivers f again, add_new_files_to_index (given a     *)
(* set of new index files) overwrites the staged file, returns exactly     *)
(* that file as modified, and writes neither the package page nor the      *)
(* root page.                                                              *)
(***************************************************************************)
MutatorCalled == call.op = "add_new_files_to_index"

MutatorEnded == MutatorCalled /\ pc \in {"cleanup", "raised"}

Redelivered(f) ==
    /\ MutatorCalled
    /\ ~new_index_files.isNone
    /\ incoming = {f}
    /\ IsFile(call.before, StagedFile(f))
    /\ IsFile(call.before, StagedPage(f))
    /\ f \in Hrefs(call.before[StagedPage(f)].content)

SameFile(f, g, q) ==
    /\ q \in DOMAIN f <=> q \in DOMAIN g
    /\ q \in DOMAIN f => f[q] = g[q]

C14_Scenario2 ==
    \A f \in StagedFiles :
        (Redelivered(f) /\ MutatorEnded) =>
            /\ pc = "cleanup"
            /\ IsFile(fs, StagedFile(f))
            /\ fs[StagedFile(f)].content = PackageData(f)
            /\ modified_files = {StagedFile(f)}
            /\ SameFile(fs, call.before, StagedPage(f))
            /\ SameFile(fs, call.before, RootPage)

(***************************************************************************)
(* C18: the set add_new_files_to_index returns is the set of the files it  *)
(* created or overwrote in the staging tree during the call: every member  *)
(* is the path of a regular file that exists inside the staging tree       *)
(* (never None, never a directory), and every file of the tree that is     *)
(* new or has new content is a member.                                     *)
(***************************************************************************)
MutatorReturned == MutatorCalled /\ pc = "cleanup"

ChangedFiles ==
    {q \in DOMAIN fs : IsFile(fs, q) /\ (q \notin DOMAIN call.before \/ fs[q] # call.before[q])}

C18_ModifiedExact ==
    MutatorReturned =>
        /\ None \notin modified_files
        /\ \A m \in modified_files : IsFile(fs, m) /\ IsUnder(m, TempDir)
        /\ ChangedFiles \subseteq modified_files
        /\ \A q \in DOMAIN call.before : q \in DOMAIN fs
        /\ \A q \in DOMAIN fs \ modified_files :
              q \in DOMAIN call.before => fs[q] = call.before[q]

\* a call that rebuilt a root page that was there and added a package with
\* its page
C18_Witness ==
    /\ MutatorReturned
    /\ Cardinality(modified_files) >= 3
    /\ RootPage \in modified_files
    /\ IsFile(call.before, RootPage)
    /\ \E m \in modified_files : m \notin DOMAIN call.before

=============================================================================
